---- MODULE Spec2Model ----
(***************************************************************************)
(* A model of the example data pullers of this repository:                 *)
(*   EIA/eia_fetch.py          offset pagination with a retrying fetch     *)
(*   FRED/get_all_serises.py   recursive category crawler                  *)
(*   yFinance/get_stocks_data.py   download with a fixed number of tries   *)
(* One behaviour runs one script (prog) against one upstream source.       *)
(* Durations are in milliseconds.  Strings that the code parses are        *)
(* sequences of one-character strings.                                     *)
(***************************************************************************)
EXTENDS Integers, Sequences, FiniteSets, TLC

VARIABLES
    prog,          \* which script this behaviour runs
    pc,            \* position of the script
    last_ev,       \* history: the last thing done, an HTTP request or a sleep
    adjacent,      \* history: two requests were issued with no sleep between
    last_req,      \* history: the last HTTP request issued
    call,          \* history: the retry wrapper call in progress or returned
    attempt,       \* loop variable of the retry loop
    fails_left,    \* failures the upstream may still inject
    API_KEY,       \* os.getenv("API_KEY_EIA") or os.getenv("API_KEY_FRED")
    \* ---- EIA/eia_fetch.py
    page_size,     \* PAGE_SIZE
    START_DATE, END_DATE,
    src_data,      \* the records the EIA source holds
    src_total,     \* how the source reports "total"
    offset, rows_written, headers, data_page,
    file,          \* rows written to OUTPUT_FILE, header included
    pages,         \* history: fetch_page calls made by main
    stop,          \* history: what ended the pagination loop
    \* ---- FRED/get_all_serises.py
    tree,          \* the source's category tree: tree[i] is the parent of i
    series,        \* series[c + 1]: the series the source holds in category c
    stack,         \* the frames of crawl_category, innermost last
    endpoint,      \* the endpoint fred_request was called with
    data,          \* what the last fred_request returned
    collected,     \* the accumulator: one chunk per category/series answer
    csv,           \* history: every content written to OUTPUT_CSV, in order
    skipped,       \* history: the requests fred_request gave up on
    visits,        \* history: the categories crawl_category was entered for
    requested,     \* history: the requests fred_request sent, in order
    \* ---- yFinance/get_stocks_data.py
    yf_in,         \* the arguments get_stock_data is called with
    yf_args,       \* what validate_inputs returned
    yf_out,        \* what get_stock_data returned, and whether the CSV exists
    \* ---- FRED/specific_series.py
    meta,          \* what get_series_metadata returned
    df,            \* rows of the frame fetch_series_data returned
    saved,         \* the files save_series wrote, in order
    \* ---- process_period called on its own
    period_in,     \* the argument
    period_out     \* what process_period returned

vars == <<prog, pc, last_ev, adjacent, last_req, call, attempt, fails_left,
          API_KEY, START_DATE, END_DATE, page_size, src_data,
          src_total, offset, rows_written, headers, data_page, file, pages,
          stop, tree, series, stack, endpoint, data, collected, csv, skipped,
          visits, requested, yf_in, yf_args, yf_out, meta, df, saved,
          period_in, period_out>>

(***************************************************************************)
(* Bounds of the model.                                                    *)
(***************************************************************************)
MaxTotal == 3        \* records an EIA source holds
MaxPageSize == 2     \* largest PAGE_SIZE tried
MaxFailures == 5     \* failed requests the upstream injects in one run
MaxNodes == 3        \* categories of a FRED category tree

None == "None"

(***************************************************************************)
(* Program constants.                                                      *)
(***************************************************************************)
REQUEST_DELAY == 1000
MAX_RETRIES == 5
DELAY == 500
FRED_MAX_RETRIES == 5
SAVE_EVERY == 10000
SAVE_WINDOW == 100
RETRIES == 3
YF_SLEEP == 2000
INTRADAY_DAYS == 730

Min(a, b) == IF a < b THEN a ELSE b
Max(a, b) == IF a < b THEN b ELSE a
Ceil(a, b) == (a + b - 1) \div b

(***************************************************************************)
(* History records.                                                        *)
(***************************************************************************)
Req(fn, arg, page) == [fn |-> fn, arg |-> arg, page |-> page]
NoReq == [fn |-> None, arg |-> 0, page |-> 0]
\* evs: the requests ("req") and sleeps ("sleep") of one step, in order
Adjacent(evs) ==
    \E i \in 1..(Len(evs) - 1) : evs[i] = "req" /\ evs[i + 1] = "req"
Track(evs) ==
    /\ last_ev' = evs[Len(evs)]
    /\ adjacent' = (adjacent \/ Adjacent(<<last_ev>> \o evs))
history == <<last_ev, adjacent>>
NewCall(fn) == [fn |-> fn, reqs |-> 0, fails |-> 0, sleeps |-> <<>>,
                result |-> "pending"]
NoCall == [fn |-> None, reqs |-> 0, fails |-> 0, sleeps |-> <<>>,
           result |-> None]
\* one request of the call in progress failed, followed by the sleeps given
CallFailed(c, sl, res) ==
    [c EXCEPT !.reqs = @ + 1, !.fails = @ + 1, !.sleeps = @ \o sl,
              !.result = res]
CallSucceeded(c) == [c EXCEPT !.reqs = @ + 1, !.result = "json"]

(***************************************************************************)
(* Text: a string the code parses or formats is a sequence of characters.  *)
(***************************************************************************)
Digits == {"0", "1", "2", "3", "4", "5", "6", "7", "8", "9"}
DigitVal(c) ==
    CASE c = "0" -> 0 [] c = "1" -> 1 [] c = "2" -> 2 [] c = "3" -> 3
      [] c = "4" -> 4 [] c = "5" -> 5 [] c = "6" -> 6 [] c = "7" -> 7
      [] c = "8" -> 8 [] c = "9" -> 9
DigitChar(n) == CHOOSE c \in Digits : DigitVal(c) = n
IsDigits(seg) == \A i \in 1..Len(seg) : seg[i] \in Digits
RECURSIVE Num(_)
Num(seg) ==
    IF seg = <<>> THEN 0
    ELSE 10 * Num(SubSeq(seg, 1, Len(seg) - 1)) + DigitVal(seg[Len(seg)])
RECURSIVE NumStr(_)
NumStr(n) ==
    IF n < 10 THEN <<DigitChar(n)>>
    ELSE NumStr(n \div 10) \o <<DigitChar(n % 10)>>
Pad2(n) == <<DigitChar(n \div 10), DigitChar(n % 10)>>

\* the directives of strptime's format "%Y-%m-%dT%H", as its regular
\* expressions: %Y \d\d\d\d, %m 1[0-2]|0[1-9]|[1-9],
\* %d 3[0-1]|[1-2]\d|0[1-9]|[1-9]| [1-9], %H 2[0-3]|[0-1]\d|\d
MatchY(seg) == Len(seg) = 4 /\ IsDigits(seg)
MatchM(seg) == Len(seg) \in {1, 2} /\ IsDigits(seg) /\ Num(seg) \in 1..12
MatchD(seg) ==
    \/ Len(seg) \in {1, 2} /\ IsDigits(seg) /\ Num(seg) \in 1..31
    \/ Len(seg) = 2 /\ seg[1] = " " /\ seg[2] \in Digits \ {"0"}
MatchH(seg) ==
    /\ IsDigits(seg)
    /\ \/ Len(seg) = 2 /\ Num(seg) \in 0..23
       \/ Len(seg) = 1
DayNum(seg) == IF seg[1] = " " THEN DigitVal(seg[2]) ELSE Num(seg)
IsLeap(y) == (y % 4 = 0 /\ y % 100 # 0) \/ y % 400 = 0
DaysInMonth(y, m) ==
    IF m = 2 THEN (IF IsLeap(y) THEN 29 ELSE 28)
    ELSE IF m \in {4, 6, 9, 11} THEN 30 ELSE 31

\* the places of the second "-" and of the "T" that split raw_period into
\* the four fields, when the whole string matches the format (the format
\* is matched ignoring case)
PeriodSplits(s) ==
    IF Len(s) < 5 \/ ~MatchY(SubSeq(s, 1, 4)) \/ s[5] # "-" THEN {}
    ELSE {jk \in (7..8) \X (9..11) :
            /\ jk[1] < jk[2] /\ jk[2] < Len(s)
            /\ s[jk[1]] = "-" /\ s[jk[2]] \in {"T", "t"}
            /\ MatchM(SubSeq(s, 6, jk[1] - 1))
            /\ MatchD(SubSeq(s, jk[1] + 1, jk[2] - 1))
            /\ MatchH(SubSeq(s, jk[2] + 1, Len(s)))}

\* datetime.strptime(raw_period, "%Y-%m-%dT%H"): the fields, or ok = FALSE
\* for the ValueError
Strptime(s) ==
    LET splits == PeriodSplits(s)
    IN
    IF splits = {} THEN [ok |-> FALSE]
    ELSE LET jk == CHOOSE x \in splits : TRUE
             y == Num(SubSeq(s, 1, 4))
             m == Num(SubSeq(s, 6, jk[1] - 1))
             d == DayNum(SubSeq(s, jk[1] + 1, jk[2] - 1))
             h == Num(SubSeq(s, jk[2] + 1, Len(s)))
         IN  IF y >= 1 /\ d <= DaysInMonth(y, m)
             THEN [ok |-> TRUE, y |-> y, m |-> m, d |-> d, h |-> h]
             ELSE [ok |-> FALSE]

\* dt.strftime("%Y-%m-%d %H:%M:%S")
Strftime_NoPad(dt) ==
    NumStr(dt.y) \o <<"-">> \o NumStr(dt.m) \o <<"-">> \o NumStr(dt.d)
    \o <<" ">> \o NumStr(dt.h) \o <<":", "0", "0", ":", "0", "0">>
Strftime(dt) ==
    NumStr(dt.y) \o <<"-">> \o Pad2(dt.m) \o <<"-">> \o Pad2(dt.d) \o <<" ">>
    \o Pad2(dt.h) \o <<":", "0", "0", ":", "0", "0">>

process_period(raw_period) ==
    LET dt == Strptime(raw_period)
    IN  IF dt.ok THEN Strftime(dt) ELSE raw_period

(***************************************************************************)
(* Records: a JSON object is the sequence of its <<key, value>> pairs.     *)
(***************************************************************************)
Keys(rec) == [i \in 1..Len(rec) |-> rec[i][1]]
HasKey(rec, k) == \E i \in 1..Len(rec) : rec[i][1] = k
Get(rec, k, default) ==
    IF HasKey(rec, k)
    THEN rec[CHOOSE i \in 1..Len(rec) : rec[i][1] = k][2]
    ELSE default
Contains(seq, x) == \E i \in 1..Len(seq) : seq[i] = x
Index(seq, x) ==
    CHOOSE i \in 1..Len(seq) :
        seq[i] = x /\ \A j \in 1..(i - 1) : seq[j] # x
InsertAfter(seq, p, x) ==
    SubSeq(seq, 1, p) \o <<x>> \o SubSeq(seq, p + 1, Len(seq))

\* headers = None in main: no header row has fewer than one column
NoHeaders == <<>>

\* write_csv_header: the header row it writes and returns; ok = FALSE when
\* the first record has neither a "timestamp" nor a "period" key
\* (headers.index raises ValueError before anything is written)
write_csv_header(first_record) ==
    LET hs == Keys(first_record)
    IN  IF Contains(hs, "timestamp") THEN [ok |-> TRUE, headers |-> hs]
        ELSE IF ~Contains(hs, "period") THEN [ok |-> FALSE]
        ELSE [ok |-> TRUE,
              headers |-> InsertAfter(hs, Index(hs, "period"), "timestamp")]

\* the row main writes for one record
FlattenRow_RecordOrder(hs, record) ==
    [i \in 1..Len(record) |-> record[i][2]]
FlattenRow(hs, record) ==
    [i \in 1..Len(hs) |->
        IF hs[i] = "timestamp" THEN process_period(Get(record, "period", <<>>))
        ELSE Get(record, hs[i], <<>>)]
HeaderRow(hs) == [kind |-> "header", cells |-> hs]
DataRow(hs, record) == [kind |-> "row", cells |-> FlattenRow(hs, record)]
DataRows(hs, records) ==
    [i \in 1..Len(records) |-> DataRow(hs, records[i])]

(***************************************************************************)
(* The EIA source: it holds src_data and serves the slice a request's      *)
(* offset and length ask for.                                              *)
(***************************************************************************)
P1 == <<"2", "0", "2", "4", "-", "1", "2", "-", "3", "1", "T", "0", "0">>
P2 == <<"2", "0", "2", "4", "-", "1", "-", "5", "T", "3">>
P3 == <<"2", "0", "2", "4", "-", "0", "2", "-", "3", "0", "T", "0", "0">>
RecA == << <<"period", P1>>, <<"value", <<"1">> >> >>
RecB == << <<"value", <<"2">> >>, <<"unit", <<"k">> >>, <<"period", P2>> >>
RecC == << <<"period", P3>> >>
RecD == << <<"value", <<"4">> >> >>
RecE == << <<"timestamp", <<"x">> >>, <<"value", <<"5">> >> >>
RecordSet == {RecA, RecB, RecC, RecD, RecE}

\* the data sets tried: a first record (it fixes the header) followed by
\* records of one shape, which may differ from the first
Repeat(x, n) == [i \in 1..n |-> x]
DataSets(maxlen) ==
    {<<>>} \cup {<<first>> \o Repeat(rest, n - 1) :
                    first \in RecordSet, rest \in RecordSet, n \in 1..maxlen}

TotalModes == {"exact", "absent", "under", "over"}
\* the "total" field of a page: has = FALSE when the page carries none
SourceTotal ==
    CASE src_total = "exact" -> [has |-> TRUE, total |-> Len(src_data)]
      [] src_total = "absent" -> [has |-> FALSE]
      [] src_total = "under" -> [has |-> TRUE, total |-> Len(src_data) - 1]
      [] src_total = "over" -> [has |-> TRUE, total |-> Len(src_data) + 1]
SourceSlice(off, length) ==
    SubSeq(src_data, off + 1, Min(off + length, Len(src_data)))
\* the JSON a successful request can return
Responses(off, length) ==
    { [shape |-> "ok", records |-> SourceSlice(off, length),
       total |-> SourceTotal],
      [shape |-> "no_response", records |-> <<>>, total |-> [has |-> FALSE]],
      [shape |-> "no_data", records |-> <<>>, total |-> [has |-> FALSE]] }
NoPage == [shape |-> None, records |-> <<>>, total |-> [has |-> FALSE]]

crawl_vars ==
    <<tree, series, stack, endpoint, data, collected, csv, skipped, visits,
      requested>>
yf_vars == <<yf_in, yf_args, yf_out>>
pp_vars == <<period_in, period_out>>
ser_vars == <<meta, df, saved>>
\* what the user configured: the key in .env and the date range
cfg_vars == <<API_KEY, START_DATE, END_DATE>>

(***************************************************************************)
(* EIA/eia_fetch.py                                                        *)
(***************************************************************************)
\* fetch_page: time.sleep(2 ** attempt)
EIABackoff_Fixed(a) == 2000
EIABackoff_Linear(a) == 2 * a * 1000
EIABackoff(a) == (2 ^ a) * 1000
\* fetch_page: if attempt < MAX_RETRIES: sleep, else: raise
EIARetries_OneMore(a) == a <= MAX_RETRIES
EIARetries(a) == a < MAX_RETRIES
\* main: total = int(data_page["response"].get("total", rows_written))
PageTotal_Ignored(page, rows) == rows
PageTotal(page, rows) == IF page.total.has THEN page.total.total ELSE rows
\* main: if rows_written >= total: break
AllRetrieved_Strict(rows, total) == rows > total
AllRetrieved(rows, total) == rows >= total
\* main: offset += PAGE_SIZE
NextOffset_One(off) == off + 1
NextOffset(off) == off + page_size
\* main: if headers is None
HeaderNeeded_Always(hs) == TRUE
HeaderNeeded(hs) == hs = NoHeaders

\* START_DATE and END_DATE as the user may set them: in order, as in the
\* source, or the start after the end (the requests carry them as they
\* are, and nothing else in the script reads them)
DateRanges ==
    { <<[kind |-> "date", day |-> 1], [kind |-> "date", day |-> 2]>>,
      <<[kind |-> "date", day |-> 2], [kind |-> "date", day |-> 1]>> }
ApiKeys == {"", "key"}

EIAInit ==
    /\ \E r \in DateRanges : START_DATE = r[1] /\ END_DATE = r[2]
    /\ page_size \in 1..MaxPageSize
    /\ src_data \in DataSets(MaxTotal)
    /\ src_total \in TotalModes
    /\ src_total = "under" => Len(src_data) >= 1
    /\ offset = 0
    /\ rows_written = 0
    /\ headers = NoHeaders
    /\ data_page = NoPage
    /\ file = <<>>
    /\ pages = 0
    /\ stop = None

EIAIdle ==
    /\ START_DATE = [kind |-> "None"] /\ END_DATE = [kind |-> "None"]
    /\ page_size = 1
    /\ src_data = <<>>
    /\ src_total = "exact"
    /\ offset = 0
    /\ rows_written = 0
    /\ headers = NoHeaders
    /\ data_page = NoPage
    /\ file = <<>>
    /\ pages = 0
    /\ stop = None

eia_src == <<page_size, src_data, src_total>>
eia_main == <<offset, rows_written, headers, file>>
eia_vars == <<eia_src, eia_main, data_page, pages, stop>>

\* module level, lines 41-44: load the key, raise ValueError without one;
\* otherwise main() starts
EIA_Load ==
    /\ prog = "eia" /\ pc = "load"
    /\ pc' = IF API_KEY = "" THEN "import_error" ELSE "loop"
    /\ UNCHANGED <<prog, cfg_vars, ser_vars, history, last_req, call, attempt,
                   fails_left, eia_vars, crawl_vars, yf_vars, pp_vars>>

\* main, line 121: data_page = fetch_page(base, params, offset)
EIA_CallFetchPage ==
    /\ prog = "eia" /\ pc = "loop"
    /\ pages' = pages + 1
    /\ attempt' = 1
    /\ call' = NewCall("fetch_page")
    /\ pc' = "fetch_page"
    /\ UNCHANGED <<prog, cfg_vars, ser_vars, history, last_req, fails_left,
                   eia_src, eia_main, data_page, stop, crawl_vars, yf_vars,
                   pp_vars>>

\* fetch_page, lines 73-76: the request succeeds and its JSON is returned
\* main, line 123: "response" not in data_page or "data" not in
\* data_page["response"]
InvalidStructure_ResponseOnly(p) == p.shape = "no_response"
InvalidStructure(p) == p.shape # "ok"
EIA_RequestOk ==
    /\ prog = "eia" /\ pc = "fetch_page"
    /\ \E r \in Responses(offset, page_size) : data_page' = r
    /\ Track(<<"req">>)
    /\ last_req' = Req("fetch_page", offset, pages)
    /\ call' = CallSucceeded(call)
    /\ pc' = "page"
    /\ UNCHANGED <<prog, cfg_vars, ser_vars, attempt, fails_left, eia_src,
                   eia_main, pages, stop, crawl_vars, yf_vars, pp_vars>>

\* fetch_page, lines 77-82: the request raises (timeout, connection error,
\* raise_for_status on 429 or 5xx); sleep and go round, or re-raise
EIA_RequestFails ==
    /\ prog = "eia" /\ pc = "fetch_page"
    /\ fails_left > 0
    /\ fails_left' = fails_left - 1
    /\ last_req' = Req("fetch_page", offset, pages)
    /\ IF EIARetries(attempt)
       THEN /\ Track(<<"req", "sleep">>)
            /\ call' = CallFailed(call, <<EIABackoff(attempt)>>, "pending")
            /\ attempt' = attempt + 1
            /\ UNCHANGED <<pc, stop>>
       ELSE /\ Track(<<"req">>)
            /\ call' = CallFailed(call, <<>>, "raise")
            /\ pc' = "raised"
            /\ stop' = "raised"
            /\ UNCHANGED attempt
    /\ UNCHANGED <<prog, cfg_vars, ser_vars, eia_src, eia_main, data_page,
                   pages, crawl_vars, yf_vars, pp_vars>>

\* main, lines 123-155: the rest of one round of the while loop
EIA_Page ==
    /\ prog = "eia" /\ pc = "page"
    /\ LET records == data_page.records
           hdr == write_csv_header(records[1])
           hs == IF HeaderNeeded(headers) THEN hdr.headers ELSE headers
           rows == rows_written + Len(records)
       IN  IF InvalidStructure(data_page)
           THEN /\ pc' = "done" /\ stop' = "invalid"
                /\ UNCHANGED <<history, eia_main>>
           ELSE IF records = <<>>
           THEN /\ pc' = "done" /\ stop' = "empty"
                /\ UNCHANGED <<history, eia_main>>
           ELSE IF HeaderNeeded(headers) /\ ~hdr.ok
           THEN /\ pc' = "raised" /\ stop' = "ValueError"
                /\ UNCHANGED <<history, eia_main>>
           ELSE /\ headers' = hs
                /\ file' = file
                     \o (IF HeaderNeeded(headers) THEN <<HeaderRow(hs)>>
                         ELSE <<>>)
                     \o DataRows(hs, records)
                /\ rows_written' = rows
                /\ IF AllRetrieved(rows, PageTotal(data_page, rows))
                   THEN /\ pc' = "done" /\ stop' = "total"
                        /\ UNCHANGED <<history, offset>>
                   ELSE /\ offset' = NextOffset(offset)
                        /\ Track(<<"sleep">>)
                        /\ pc' = "loop"
                        /\ UNCHANGED stop
    /\ UNCHANGED <<prog, cfg_vars, ser_vars, last_req, call, attempt,
                   fails_left, eia_src, data_page, pages, crawl_vars, yf_vars,
                   pp_vars>>

EIANext ==
    \/ EIA_Load \/ EIA_CallFetchPage \/ EIA_RequestOk \/ EIA_RequestFails
    \/ EIA_Page


(***************************************************************************)
(* The FRED source: a category tree rooted at category 0.                  *)
(***************************************************************************)
\* the trees of at most n categories 0..k-1: each category but the root has
\* a parent with a smaller id
Trees(n) ==
    UNION {{p \in [1..(k - 1) -> 0..(k - 1)] : \A i \in 1..(k - 1) : p[i] < i} :
           k \in 1..n}
Nodes == 0..Len(tree)
RECURSIVE SortedSeq(_)
SortedSeq(S) ==
    IF S = {} THEN <<>>
    ELSE LET m == CHOOSE x \in S : \A y \in S : x <= y
         IN  <<m>> \o SortedSeq(S \ {m})
\* the "categories" of category/children for category c
Children_FirstOnly(c) ==
    LET kids == SortedSeq({i \in 1..Len(tree) : tree[i] = c})
    IN  IF kids = <<>> THEN kids ELSE <<Head(kids)>>
Children(c) == SortedSeq({i \in 1..Len(tree) : tree[i] = c})
\* how many series a category may hold
SeriesCounts == {0, 60, 9950}
\* the series of n categories: the root holds none or many, and the
\* categories below it hold one count, few or many
SeriesSets(n) ==
    {[i \in 1..n |-> IF i = 1 THEN a ELSE b] :
        a \in SeriesCounts \ {60}, b \in SeriesCounts \ {0}}
NoData == [shape |-> None, n |-> 0, kids |-> <<>>]
\* the JSON a successful request to the endpoint can return
FREDResponses(ep, c) ==
    IF ep = "category/series"
    THEN {[shape |-> "seriess", n |-> series[c + 1], kids |-> <<>>]}
    ELSE {[shape |-> "categories", n |-> 0, kids |-> Children(c)]}

(***************************************************************************)
(* FRED/get_all_serises.py                                                 *)
(***************************************************************************)
\* fred_request: wait = (attempt + 1) * 2, and the same in the except clause
FREDBackoff(a) == (a + 1) * 2 * 1000
\* fred_request: for attempt in range(MAX_RETRIES) has a next round
FREDRetries(a) == a + 1 < FRED_MAX_RETRIES
\* crawl_category: if len(collected) % SAVE_EVERY < 100
SaveDue(n) == n % SAVE_EVERY < SAVE_WINDOW
\* crawl_category, line 57: collected.extend(data["seriess"])
Extend_AtFront(c, chunk) == <<chunk>> \o c
Extend(c, chunk) == Append(c, chunk)
RECURSIVE CollectedLen(_)
CollectedLen(c) ==
    IF c = <<>> THEN 0 ELSE c[1].n + CollectedLen(Tail(c))
Frame(c) == [cat |-> c, kids |-> <<>>]
Top == stack[Len(stack)]
Pop(st) == SubSeq(st, 1, Len(st) - 1)

CrawlInit ==
    /\ tree \in Trees(MaxNodes)
    /\ series \in SeriesSets(Len(tree) + 1)
    /\ stack = <<Frame(0)>>
    /\ endpoint = None
    /\ data = NoData
    /\ collected = <<>>
    /\ csv = <<>>
    /\ skipped = {}
    /\ visits = <<>>
    /\ requested = <<>>

CrawlIdle ==
    /\ tree = <<>>
    /\ series = <<>>
    /\ stack = <<>>
    /\ endpoint = None
    /\ data = NoData
    /\ collected = <<>>
    /\ csv = <<>>
    /\ skipped = {}
    /\ visits = <<>>
    /\ requested = <<>>

\* module level, lines 8-12: load the key, raise ValueError without one;
\* otherwise crawl_category(0) is called
FRED_Load ==
    /\ prog = "crawl" /\ pc = "load"
    /\ pc' = IF API_KEY = "" THEN "import_error" ELSE "crawl_category"
    /\ UNCHANGED <<prog, cfg_vars, ser_vars, history, last_req, call, attempt,
                   fails_left, eia_vars, crawl_vars, yf_vars, pp_vars>>

\* crawl_category, line 55: data = fred_request("category/series", ...)
Crawl_Enter ==
    /\ prog = "crawl" /\ pc = "crawl_category"
    /\ visits' = Append(visits, Top.cat)
    /\ endpoint' = "category/series"
    /\ attempt' = 0
    /\ call' = NewCall("fred_request")
    /\ pc' = "fred_request"
    /\ UNCHANGED <<prog, cfg_vars, ser_vars, history, last_req, fails_left,
                   eia_vars, tree, series, stack, data, collected, csv,
                   skipped, yf_vars, pp_vars, requested>>

\* fred_request, lines 31-39: the request succeeds and its JSON is returned
FRED_RequestOk ==
    /\ prog = "crawl" /\ pc = "fred_request"
    /\ \E r \in FREDResponses(endpoint, Top.cat) : data' = r
    /\ Track(<<"req">>)
    /\ last_req' = Req(endpoint, Top.cat, 0)
    /\ requested' = Append(requested, <<endpoint, Top.cat>>)
    /\ call' = CallSucceeded(call)
    /\ pc' = "returned"
    /\ UNCHANGED <<prog, cfg_vars, ser_vars, attempt, fails_left, eia_vars,
                   tree, series, stack, endpoint, collected, csv, skipped,
                   visits, yf_vars, pp_vars>>

\* what a failed round of fred_request leaves: the wait, then the next round
\* or, after the last one, "Max retries reached" and return None
FREDFailed ==
    /\ fails_left > 0
    /\ fails_left' = fails_left - 1
    /\ Track(<<"req", "sleep">>)
    /\ last_req' = Req(endpoint, Top.cat, 0)
    /\ requested' = Append(requested, <<endpoint, Top.cat>>)
    /\ IF FREDRetries(attempt)
       THEN /\ call' = CallFailed(call, <<FREDBackoff(attempt)>>, "pending")
            /\ attempt' = attempt + 1
            /\ UNCHANGED <<pc, data, skipped>>
       ELSE /\ call' = CallFailed(call, <<FREDBackoff(attempt)>>, "none")
            /\ data' = NoData
            /\ skipped' = skipped \cup {<<endpoint, Top.cat>>}
            /\ pc' = "returned"
            /\ UNCHANGED attempt
    /\ UNCHANGED <<prog, cfg_vars, ser_vars, eia_vars, tree, series, stack,
                   endpoint, collected, csv, visits, yf_vars, pp_vars>>

\* fred_request, lines 32-36: HTTP 429
FRED_RateLimited ==
    /\ prog = "crawl" /\ pc = "fred_request"
    /\ FREDFailed

\* fred_request, lines 40-42: requests.exceptions.RequestException
FRED_RequestFails ==
    /\ prog = "crawl" /\ pc = "fred_request"
    /\ FREDFailed

\* crawl_category, lines 56-67: take the series, save if due, ask for the
\* children
Crawl_GotSeries ==
    /\ prog = "crawl" /\ pc = "returned" /\ endpoint = "category/series"
    /\ IF data.shape = "seriess"
       THEN LET all == Extend(collected, [cat |-> Top.cat, n |-> data.n])
            IN  /\ collected' = all
                /\ csv' = IF SaveDue(CollectedLen(all))
                          THEN Append(csv, all) ELSE csv
       ELSE UNCHANGED <<collected, csv>>
    /\ endpoint' = "category/children"
    /\ attempt' = 0
    /\ call' = NewCall("fred_request")
    /\ pc' = "fred_request"
    /\ UNCHANGED <<prog, cfg_vars, ser_vars, history, last_req, fails_left,
                   eia_vars, tree, series, stack, data, skipped, visits,
                   yf_vars, pp_vars, requested>>

\* crawl_category, lines 68-69: the children to go through
Crawl_GotChildren ==
    /\ prog = "crawl" /\ pc = "returned" /\ endpoint = "category/children"
    /\ stack' = [stack EXCEPT ![Len(stack)].kids =
                    IF data.shape = "categories" THEN data.kids ELSE <<>>]
    /\ pc' = "for"
    /\ UNCHANGED <<prog, cfg_vars, ser_vars, history, last_req, call, attempt,
                   fails_left, eia_vars, tree, series, endpoint, data,
                   collected, csv, skipped, visits, yf_vars, pp_vars,
                   requested>>

\* crawl_category, lines 69-74: sleep, then recurse into the next child
Crawl_Child ==
    /\ prog = "crawl" /\ pc = "for" /\ Top.kids # <<>>
    /\ Track(<<"sleep">>)
    /\ stack' = Append([stack EXCEPT ![Len(stack)].kids = Tail(@)],
                       Frame(Head(Top.kids)))
    /\ pc' = "crawl_category"
    /\ UNCHANGED <<prog, cfg_vars, ser_vars, last_req, call, attempt,
                   fails_left, eia_vars, tree, series, endpoint, data,
                   collected, csv, skipped, visits, yf_vars, pp_vars,
                   requested>>

\* crawl_category, lines 76-77: sleep and return collected
Crawl_Return ==
    /\ prog = "crawl" /\ pc = "for" /\ Top.kids = <<>>
    /\ Track(<<"sleep">>)
    /\ stack' = Pop(stack)
    /\ pc' = IF Len(stack) = 1 THEN "main" ELSE "for"
    /\ UNCHANGED <<prog, cfg_vars, ser_vars, last_req, call, attempt,
                   fails_left, eia_vars, tree, series, endpoint, data,
                   collected, csv, skipped, visits, yf_vars, pp_vars,
                   requested>>

\* __main__, lines 84-85: the final save
Crawl_Main ==
    /\ prog = "crawl" /\ pc = "main"
    /\ csv' = Append(csv, collected)
    /\ pc' = "done"
    /\ UNCHANGED <<prog, cfg_vars, ser_vars, history, last_req, call, attempt,
                   fails_left, eia_vars, tree, series, stack, endpoint, data,
                   collected, skipped, visits, yf_vars, pp_vars, requested>>

CrawlNext ==
    \/ FRED_Load \/ Crawl_Enter \/ FRED_RequestOk \/ FRED_RateLimited
    \/ FRED_RequestFails \/ Crawl_GotSeries \/ Crawl_GotChildren
    \/ Crawl_Child \/ Crawl_Return \/ Crawl_Main


(***************************************************************************)
(* yFinance/get_stocks_data.py.  A datetime is a number of half days       *)
(* counted from today's midnight: a date d parsed by strptime is 2 * d,    *)
(* datetime.now() is 1 (today, after midnight).                            *)
(***************************************************************************)
NoDate == [kind |-> "None"]
Date(d) == [kind |-> "date", day |-> d]
BadDate == [kind |-> "bad"]
Midnight(d) == 2 * d
Now == 1
DayOf(t) == t \div 2
\* (a - b).days
DaysBetween(a, b) == (a - b) \div 2
IntradayIntervals == {"1m", "2m", "5m", "15m", "30m", "60m", "90m", "1h"}
Tickers == {[type |-> "str", text |-> "SPY"], [type |-> "str", text |-> ""],
            [type |-> "int", text |-> "7"]}
StartDates == {NoDate, BadDate, Date(-1000), Date(-800), Date(-10), Date(5)}
EndDates == {NoDate, Date(-900), Date(-5), Date(5)}
Intervals == {"1m", "1d"}
Raised(e) == [raised |-> TRUE, error |-> e]

\* validate_inputs: what it returns, or the exception it raises
validate_inputs_NoChecks(ticker, start, end, interval) ==
    [raised |-> FALSE, ticker |-> ticker, start |-> NoDate, end |-> NoDate,
     interval |-> interval, period |-> "max"]
validate_inputs(ticker, start, end, interval) ==
    IF ticker.type # "str" \/ ticker.text = "" THEN Raised("ValueError")
    ELSE IF start.kind = "bad" \/ end.kind = "bad" THEN Raised("ValueError")
    ELSE
    LET has_start == start.kind = "date"
        start_dt == IF has_start THEN Midnight(start.day) ELSE 0
        end_dt == IF end.kind = "date" THEN Midnight(end.day) ELSE Now
        intraday == interval \in IntradayIntervals /\ has_start
        start_2 == IF intraday /\ DaysBetween(Now, start_dt) > INTRADAY_DAYS
                   THEN Now - 2 * INTRADAY_DAYS ELSE start_dt
        end_2 == IF intraday /\ end_dt > Now THEN Now ELSE end_dt
        end_3 == IF end.kind = "None" THEN Now ELSE end_2
    IN  IF has_start /\ end_dt < start_dt THEN Raised("ValueError")
        ELSE IF start.kind = "None" /\ end.kind = "None"
        THEN [raised |-> FALSE, ticker |-> ticker, start |-> NoDate,
              end |-> NoDate, interval |-> interval, period |-> "max"]
        ELSE [raised |-> FALSE, ticker |-> ticker,
              start |-> IF has_start THEN Date(DayOf(start_2)) ELSE NoDate,
              end |-> Date(DayOf(end_3)),
              interval |-> interval, period |-> None]

\* get_stock_data: time.sleep(2) after a failed attempt
YFBackoff(a) == YF_SLEEP
\* get_stock_data: for attempt in range(1, retries + 1) has a next round
YFRetries(a) == a < RETRIES
NoArgs == [raised |-> FALSE, ticker |-> [type |-> "str", text |-> ""],
           start |-> NoDate, end |-> NoDate, interval |-> None,
           period |-> None]
NoOut == [result |-> "pending", saved |-> FALSE]

YFInit ==
    /\ yf_in \in [ticker : Tickers, start : StartDates, end : EndDates,
                  interval : Intervals]
    /\ yf_args = NoArgs
    /\ yf_out = NoOut

YFIdle ==
    /\ yf_in = [ticker |-> [type |-> "str", text |-> ""], start |-> NoDate,
                end |-> NoDate, interval |-> None]
    /\ yf_args = NoArgs
    /\ yf_out = NoOut

\* get_stock_data, lines 69-72: validate, then enter the retry loop
YF_Validate ==
    /\ prog = "yf" /\ pc = "get_stock_data"
    /\ LET v == validate_inputs(yf_in.ticker, yf_in.start, yf_in.end,
                                yf_in.interval)
       IN  IF v.raised
           THEN /\ pc' = "raised"
                /\ yf_out' = [yf_out EXCEPT !.result = v.error]
                /\ UNCHANGED <<yf_args, attempt, call>>
           ELSE /\ yf_args' = v
                /\ attempt' = 1
                /\ call' = NewCall("get_stock_data")
                /\ pc' = "download"
                /\ UNCHANGED yf_out
    /\ UNCHANGED <<prog, cfg_vars, ser_vars, history, last_req, fails_left,
                   eia_vars, crawl_vars, yf_in, pp_vars>>

\* get_stock_data, lines 76-103: the download returns rows; save and return
YF_DownloadOk ==
    /\ prog = "yf" /\ pc = "download"
    /\ Track(<<"req">>)
    /\ last_req' = Req("download", 0, 0)
    /\ call' = CallSucceeded(call)
    /\ yf_out' = [result |-> "data", saved |-> TRUE]
    /\ pc' = "done"
    /\ UNCHANGED <<prog, cfg_vars, ser_vars, attempt, fails_left, eia_vars,
                   crawl_vars, yf_in, yf_args, pp_vars>>

\* what a failed attempt of get_stock_data leaves: sleep, then the next
\* round or, after the last one, return None
YFFailed ==
    /\ fails_left > 0
    /\ fails_left' = fails_left - 1
    /\ Track(<<"req", "sleep">>)
    /\ last_req' = Req("download", 0, 0)
    /\ IF YFRetries(attempt)
       THEN /\ call' = CallFailed(call, <<YFBackoff(attempt)>>, "pending")
            /\ attempt' = attempt + 1
            /\ UNCHANGED <<pc, yf_out>>
       ELSE /\ call' = CallFailed(call, <<YFBackoff(attempt)>>, "none")
            /\ yf_out' = [yf_out EXCEPT !.result = None]
            /\ pc' = "done"
            /\ UNCHANGED attempt
    /\ UNCHANGED <<prog, cfg_vars, ser_vars, eia_vars, crawl_vars, yf_in,
                   yf_args, pp_vars>>

\* get_stock_data, lines 77-79 and 105-107: yf.download raises
YF_DownloadRaises ==
    /\ prog = "yf" /\ pc = "download"
    /\ YFFailed

\* get_stock_data, lines 81-82 and 105-107: the download is empty
YF_DownloadEmpty ==
    /\ prog = "yf" /\ pc = "download"
    /\ YFFailed

YFNext == YF_Validate \/ YF_DownloadOk \/ YF_DownloadRaises \/ YF_DownloadEmpty

(***************************************************************************)
(* FRED/specific_series.py: metadata, then observations, then two files.   *)
(* Its fred_request is the one of get_all_serises.py, with the same        *)
(* MAX_RETRIES.                                                            *)
(***************************************************************************)
\* the JSON a successful request to the endpoint can return: for "series" a
\* list of one description, of one empty description or of none, for
\* "series/observations" a list of rows; or JSON without the key, or null
SeriesResponses(ep) ==
    {[shape |-> "other", n |-> 0, kids |-> <<>>, first |-> None],
     [shape |-> "null", n |-> 0, kids |-> <<>>, first |-> None]}
    \cup
    IF ep = "series"
    THEN {[shape |-> "seriess", n |-> 1, kids |-> <<>>, first |-> "GDP"],
          [shape |-> "seriess", n |-> 1, kids |-> <<>>, first |-> "{}"],
          [shape |-> "seriess", n |-> 0, kids |-> <<>>, first |-> None]}
    ELSE {[shape |-> "observations", n |-> k, kids |-> <<>>,
           first |-> None] : k \in 0..MaxTotal}

SeriesInit ==
    /\ meta = None
    /\ df = 0
    /\ saved = <<>>

SeriesIdle == SeriesInit

crawl_state == <<tree, series, stack, collected, csv, visits>>

\* module level, lines 18-22: load the key, raise ValueError without one
Series_Load ==
    /\ prog = "series" /\ pc = "load"
    /\ pc' = IF API_KEY = "" THEN "import_error" ELSE "main"
    /\ UNCHANGED <<prog, cfg_vars, ser_vars, history, last_req, call, attempt,
                   fails_left, eia_vars, crawl_vars, yf_vars, pp_vars>>

\* __main__, line 128, and get_series_metadata, line 59:
\* data = fred_request(BASE_URL_META, ...)
Series_CallMeta ==
    /\ prog = "series" /\ pc = "main"
    /\ endpoint' = "series"
    /\ attempt' = 0
    /\ call' = NewCall("fred_request")
    /\ pc' = "fred_request"
    /\ UNCHANGED <<prog, cfg_vars, ser_vars, history, last_req, fails_left,
                   eia_vars, crawl_state, data, skipped, requested, yf_vars,
                   pp_vars>>

\* fred_request, lines 40-48: the request succeeds and its JSON is returned
Series_RequestOk ==
    /\ prog = "series" /\ pc = "fred_request"
    /\ \E r \in SeriesResponses(endpoint) : data' = r
    /\ Track(<<"req">>)
    /\ last_req' = Req(endpoint, 0, 0)
    /\ requested' = Append(requested, <<endpoint, "ok">>)
    /\ call' = CallSucceeded(call)
    /\ pc' = "returned"
    /\ UNCHANGED <<prog, cfg_vars, ser_vars, attempt, fails_left, eia_vars,
                   crawl_state, endpoint, skipped, yf_vars, pp_vars>>

\* what a failed round of fred_request leaves: the wait, then the next round
\* or, after the last one, "Max retries reached" and return None
SeriesFailed ==
    /\ fails_left > 0
    /\ fails_left' = fails_left - 1
    /\ Track(<<"req", "sleep">>)
    /\ last_req' = Req(endpoint, 0, 0)
    /\ requested' = Append(requested, <<endpoint, "failed">>)
    /\ IF FREDRetries(attempt)
       THEN /\ call' = CallFailed(call, <<FREDBackoff(attempt)>>, "pending")
            /\ attempt' = attempt + 1
            /\ UNCHANGED <<pc, data, skipped>>
       ELSE /\ call' = CallFailed(call, <<FREDBackoff(attempt)>>, "none")
            /\ data' = NoData
            /\ skipped' = skipped \cup {<<endpoint, 0>>}
            /\ pc' = "returned"
            /\ UNCHANGED attempt
    /\ UNCHANGED <<prog, cfg_vars, ser_vars, eia_vars, crawl_state, endpoint,
                   yf_vars, pp_vars>>

\* fred_request, lines 42-46: HTTP 429
Series_RateLimited ==
    /\ prog = "series" /\ pc = "fred_request"
    /\ SeriesFailed

\* fred_request, lines 49-51: requests.exceptions.RequestException
Series_RequestFails ==
    /\ prog = "series" /\ pc = "fred_request"
    /\ SeriesFailed

\* get_series_metadata, line 60: not data or "seriess" not in data
MetaMissing(d) == d.shape # "seriess"
\* __main__, line 129: if not meta
NoMeta_Ignored(m) == FALSE
NoMeta(m) == m \in {None, "{}"}
\* fetch_series_data, line 82: not data or "observations" not in data
NoObservations(d) == d.shape # "observations"

\* get_series_metadata, lines 60-67, __main__, lines 129-133, and
\* fetch_series_data, lines 72-81: take the description, exit(1) without
\* one, else ask for the observations
Series_GotMeta ==
    /\ prog = "series" /\ pc = "returned" /\ endpoint = "series"
    /\ IF ~MetaMissing(data) /\ data.n = 0
       THEN \* data["seriess"][0] raises IndexError
            /\ pc' = "raised"
            /\ UNCHANGED <<meta, endpoint, attempt, call>>
       ELSE LET m == IF MetaMissing(data) THEN None ELSE data.first
            IN  /\ meta' = m
                /\ IF NoMeta(m)
                   THEN /\ pc' = "exit_1"
                        /\ UNCHANGED <<endpoint, attempt, call>>
                   ELSE /\ endpoint' = "series/observations"
                        /\ attempt' = 0
                        /\ call' = NewCall("fred_request")
                        /\ pc' = "fred_request"
    /\ UNCHANGED <<prog, cfg_vars, df, saved, history, last_req, fails_left,
                   eia_vars, crawl_state, data, skipped, requested, yf_vars,
                   pp_vars>>

\* fetch_series_data, lines 82-97, and __main__, lines 134-141: an empty
\* frame ends the run with exit(0); else sleep, then save_series writes the
\* data CSV and the metadata JSON
Series_GotObservations ==
    /\ prog = "series" /\ pc = "returned"
    /\ endpoint = "series/observations"
    /\ LET rows == IF NoObservations(data) THEN 0 ELSE data.n
       IN  /\ df' = rows
           /\ IF rows = 0
              THEN /\ pc' = "exit_0"
                   /\ UNCHANGED <<saved, history>>
              ELSE /\ Track(<<"sleep">>)
                   /\ saved' = <<"csv", "json">>
                   /\ pc' = "done"
    /\ UNCHANGED <<prog, cfg_vars, meta, last_req, call, attempt, fails_left,
                   eia_vars, crawl_vars, yf_vars, pp_vars>>

SeriesNext ==
    \/ Series_Load \/ Series_CallMeta \/ Series_RequestOk
    \/ Series_RateLimited \/ Series_RequestFails \/ Series_GotMeta
    \/ Series_GotObservations

(***************************************************************************)
(* process_period on its own: the strings tried are a year, a month, a day *)
(* and an hour as the source may spell them, joined by "-", "-" and a      *)
(* separator, and a few strings of another form.                           *)
(***************************************************************************)
YearTexts == {<<"2", "0", "2", "4">>, <<"2", "0", "2", "3">>,
              <<"0", "9", "9", "9">>, <<"0", "0", "0", "0">>, <<"2", "4">>}
MonthTexts == {<<"1", "2">>, <<"0", "2">>, <<"2">>, <<"1", "3">>, <<"0", "0">>}
DayTexts == {<<"3", "1">>, <<"2", "9">>, <<"3", "0">>, <<"5">>, <<" ", "5">>,
             <<"0", "0">>}
SepTexts == {<<"T">>, <<"t">>, <<" ">>}
HourTexts == {<<"0", "0">>, <<"2", "3">>, <<"2", "4">>, <<"7">>, <<>>}
PeriodInputs ==
    {y \o <<"-">> \o m \o <<"-">> \o d \o sep \o h :
        y \in YearTexts, m \in MonthTexts, d \in DayTexts, sep \in SepTexts,
        h \in HourTexts}
    \cup {<<>>, <<"x">>, SubSeq(P1, 1, 10), P1 \o <<":", "0", "0">>}

PeriodIdle ==
    /\ period_in = <<>>
    /\ period_out = <<>>

\* main, line 141: process_period(record.get("period", ""))
PP_Call ==
    /\ prog = "period" /\ pc = "process_period"
    /\ period_out' = process_period(period_in)
    /\ pc' = "done"
    /\ UNCHANGED <<prog, cfg_vars, ser_vars, history, last_req, call, attempt,
                   fails_left, eia_vars, crawl_vars, yf_vars, period_in>>

(***************************************************************************)
(* The specification.                                                      *)
(***************************************************************************)
Init ==
    /\ prog \in {"eia", "crawl", "yf", "series"}
    /\ pc = CASE prog = "eia" -> "load"
              [] prog = "crawl" -> "load"
              [] prog = "yf" -> "get_stock_data"
              [] prog = "series" -> "load"
    /\ API_KEY \in IF prog = "yf" THEN {""} ELSE ApiKeys
    /\ last_ev = None
    /\ adjacent = FALSE
    /\ last_req = NoReq
    /\ call = NoCall
    /\ attempt = 0
    /\ fails_left = MaxFailures
    /\ IF prog = "eia" THEN EIAInit ELSE EIAIdle
    /\ IF prog = "crawl" THEN CrawlInit ELSE CrawlIdle
    /\ IF prog = "yf" THEN YFInit ELSE YFIdle
    /\ IF prog = "series" THEN SeriesInit ELSE SeriesIdle
    /\ PeriodIdle

Next == EIANext \/ CrawlNext \/ YFNext \/ SeriesNext

Spec == Init /\ [][Next]_vars

\* process_period applied to one string
InitPeriod ==
    /\ prog = "period"
    /\ pc = "process_period"
    /\ last_ev = None
    /\ adjacent = FALSE
    /\ last_req = NoReq
    /\ call = NoCall
    /\ attempt = 0
    /\ fails_left = 0
    /\ API_KEY = ""
    /\ EIAIdle /\ CrawlIdle /\ YFIdle /\ SeriesIdle
    /\ period_in \in PeriodInputs
    /\ period_out = <<>>

NextPeriod == PP_Call

SpecPeriod == InitPeriod /\ [][NextPeriod]_vars

(***************************************************************************)
(* The properties checked.                                                 *)
(***************************************************************************)
MaxAttempts(fn) ==
    CASE fn = "fetch_page" -> MAX_RETRIES
      [] fn = "fred_request" -> FRED_MAX_RETRIES
      [] fn = "get_stock_data" -> RETRIES
      [] OTHER -> 0
StrictlyIncreasing(q) == \A i \in 1..(Len(q) - 1) : q[i] < q[i + 1]
DataRowCount == Cardinality({i \in 1..Len(file) : file[i].kind = "row"})
HeaderCount == Cardinality({i \in 1..Len(file) : file[i].kind = "header"})
\* the EIA loop completed against a source that reports its true total and
\* answered every page request with a well-formed page
HonestRunDone ==
    prog = "eia" /\ pc = "done" /\ src_total = "exact" /\ stop # "invalid"

\* C1 as stated: against an honest source of T records the completed loop
\* has made exactly ceil(T/P) page requests and written exactly T data
\* rows, for every P >= 1 and T >= 0.
C1_CeilPagesForEveryTotal ==
    HonestRunDone =>
        /\ pages = Ceil(Len(src_data), page_size)
        /\ rows_written = Len(src_data)
        /\ DataRowCount = Len(src_data)

\* C1 amended: the completed loop has made exactly ceil(T/P) page requests
\* when T >= 1 and exactly one when T = 0, and has written exactly T data
\* rows.
C1_PagesAndRows ==
    HonestRunDone =>
        /\ pages = Max(1, Ceil(Len(src_data), page_size))
        /\ rows_written = Len(src_data)
        /\ DataRowCount = Len(src_data)

C1_Witness ==
    HonestRunDone /\ page_size = 2 /\ Len(src_data) = 3 /\ pages = 2

\* C2: a call of fetch_page or fred_request whose request failed k times,
\* k < MAX_RETRIES, and then succeeded returns the response's JSON after
\* exactly k + 1 requests and exactly k sleeps, each sleep strictly longer
\* than the one before; with fewer than MAX_RETRIES failures the call never
\* reports failure.
C2_RetryThenSuccess ==
    call.fn \in {"fetch_page", "fred_request"} =>
        /\ call.fails < MaxAttempts(call.fn) =>
               call.result \in {"pending", "json"}
        /\ call.result = "json" =>
               /\ call.fails < MaxAttempts(call.fn)
               /\ call.reqs = call.fails + 1
               /\ Len(call.sleeps) = call.fails
               /\ StrictlyIncreasing(call.sleeps)
               /\ call.fn = "fetch_page" => data_page.shape # None
               /\ call.fn = "fred_request" => data.shape # None

C2_Witness ==
    /\ call.fn = "fetch_page" /\ call.result = "json"
    /\ call.fails = MAX_RETRIES - 1 /\ Len(call.sleeps) = MAX_RETRIES - 1

\* C3: a retry wrapper never makes more than its maximum number of attempts
\* (MAX_RETRIES, retries); it reports failure only after exactly that many
\* attempts have all failed, and then it does: fetch_page raises out of
\* main, fred_request and get_stock_data return None.
C3_RetryExhaustion ==
    call.fn # None =>
        /\ call.reqs <= MaxAttempts(call.fn)
        /\ call.result \in {"raise", "none"} =>
               call.reqs = MaxAttempts(call.fn) /\ call.fails = call.reqs
        /\ call.fails = MaxAttempts(call.fn) =>
               /\ call.fn = "fetch_page" =>
                      call.result = "raise" /\ pc = "raised"
               /\ call.fn = "fred_request" => call.result = "none"
               /\ call.fn = "get_stock_data" =>
                      /\ call.result = "none" /\ pc = "done"
                      /\ yf_out = [result |-> None, saved |-> FALSE]

C3_Witness ==
    /\ call.fn = "get_stock_data" /\ call.result = "none"
    /\ call.reqs = RETRIES /\ call.fails = RETRIES

\* C4 as stated: the category crawl never runs to its end and writes its
\* result after a request has exhausted its retries.
C4_ExhaustionAbortsCrawl ==
    prog = "crawl" /\ pc = "done" => skipped = {}

PageHandled == data_page.shape # None /\ pc # "page"
\* C6: the pagination loop has ended (no request and no row follows) as
\* soon as a page with zero records was handled, or the rows written reached
\* the total of the page just handled, or fetch_page raised; when
\* fetch_page raised, main ended by that exception.
C6_LoopEnds ==
    prog = "eia" =>
        /\ PageHandled /\ data_page.shape = "ok" /\ data_page.records = <<>>
               => pc = "done" /\ stop = "empty"
        /\ PageHandled /\ data_page.shape = "ok" /\ data_page.records # <<>>
             /\ headers # NoHeaders
             /\ rows_written >= PageTotal(data_page, rows_written)
               => pc = "done" /\ stop = "total"
        /\ call.result = "raise" => pc = "raised" /\ stop = "raised"
        /\ pc \in {"done", "raised"} => ~ENABLED Next

C6_Witness ==
    /\ prog = "eia" /\ pc = "raised" /\ stop = "raised"
    /\ pages = 2 /\ rows_written = 1

\* C7 as stated: when the pages carry no total and the source holds more
\* than one page of records, the completed loop has gone on to a page with
\* zero records and has written every record of the source.
C7_NoTotalReadsToTheEnd ==
    /\ prog = "eia" /\ pc = "done" /\ src_total = "absent"
    /\ stop # "invalid" /\ Len(src_data) > page_size
    => stop = "empty" /\ rows_written = Len(src_data)

\* C8: every request of the k-th page, first try or retry, asks for offset
\* (k - 1) * PAGE_SIZE, so the first page is asked at 0 and each later
\* page PAGE_SIZE after the page before; the offset does not move after a
\* page that failed or that ended the loop.
C8_Offsets ==
    prog = "eia" =>
        /\ last_req.fn = "fetch_page" =>
               last_req.arg = (last_req.page - 1) * page_size
        /\ pc \in {"fetch_page", "page", "done", "raised"} =>
               offset = (pages - 1) * page_size
        /\ pc = "loop" => offset = pages * page_size

C8_Witness ==
    /\ prog = "eia" /\ pc = "fetch_page" /\ page_size = 2
    /\ last_req.page = 2 /\ last_req.arg = 2 /\ call.fails = 2

\* C9 as stated: in the EIA loop and in the FRED crawler no request is
\* issued directly after another request with no sleep between them.
C9_SleepBetweenRequests ==
    prog \in {"eia", "crawl"} => ~adjacent

\* C10 as stated: the file of a completed run holds the header row exactly
\* once, before every data row.
C10_HeaderExactlyOnce ==
    prog = "eia" /\ pc = "done" =>
        /\ HeaderCount = 1
        /\ file[1].kind = "header"

\* C10 amended: the file never holds the header twice; whenever a data row
\* has been written the header row is the first row of the file, written
\* once; a completed run whose first page was empty or malformed leaves the
\* file empty, with no header.
C10_HeaderOnceWithRows ==
    prog = "eia" =>
        /\ HeaderCount <= 1
        /\ file # <<>> =>
               /\ file[1].kind = "header"
               /\ file[1].cells = headers
               /\ DataRowCount = Len(file) - 1
        /\ DataRowCount = rows_written
        /\ pc = "done" => (file = <<>> <=> stop \in {"empty", "invalid"}
                                            /\ pages = 1)

C10_Witness ==
    /\ prog = "eia" /\ pc = "done" /\ pages = 2
    /\ HeaderCount = 1 /\ DataRowCount = 3


\* the header the first record of the source fixes
FirstHeader == write_csv_header(src_data[1]).headers
\* the value the row of a record owes to a header column
CellOwed(rec, col) ==
    IF col = "timestamp"
    THEN (IF HasKey(rec, "period")
          THEN process_period(Get(rec, "period", <<>>)) ELSE <<>>)
    ELSE IF \E i \in 1..Len(rec) : rec[i][1] = col
    THEN (CHOOSE v \in {rec[i][2] : i \in {j \in 1..Len(rec) : rec[j][1] = col}}
              : TRUE)
    ELSE <<>>

\* C11: once the header is written it is the header fixed by the first
\* record of the first page and stays so; the k-th data row of the file, on
\* whatever page it came, has one cell per header column, in header order:
\* the k-th record's value of that column, the empty string when the record
\* lacks it, the derived timestamp in the timestamp column.
C11_RowsFollowHeader ==
    prog = "eia" /\ file # <<>> =>
        LET hs == FirstHeader
        IN  /\ file[1] = HeaderRow(hs)
            /\ headers = hs
            /\ \A k \in 2..Len(file) :
                   /\ file[k].kind = "row"
                   /\ Len(file[k].cells) = Len(hs)
                   /\ \A j \in 1..Len(hs) :
                          file[k].cells[j] = CellOwed(src_data[k - 1], hs[j])

C11_Witness ==
    /\ prog = "eia" /\ page_size = 1 /\ src_data = <<RecA, RecB, RecB>>
    /\ Len(file) = 4 /\ pages = 3


\* a period string of the form YYYY-MM-DDTHH that denotes a date and an hour
WellFormedPeriod(s) ==
    /\ Len(s) = 13
    /\ \A i \in {1, 2, 3, 4, 6, 7, 9, 10, 12, 13} : s[i] \in Digits
    /\ s[5] = "-" /\ s[8] = "-" /\ s[11] = "T"
    /\ Num(SubSeq(s, 1, 4)) >= 1
    /\ Num(SubSeq(s, 6, 7)) \in 1..12
    /\ Num(SubSeq(s, 9, 10)) \in
           1..DaysInMonth(Num(SubSeq(s, 1, 4)), Num(SubSeq(s, 6, 7)))
    /\ Num(SubSeq(s, 12, 13)) \in 0..23
Tail00 == <<":", "0", "0", ":", "0", "0">>
\* 'YYYY-MM-DD HH:00:00' of a string of the form YYYY-MM-DDTHH
Expanded(s) == SubSeq(s, 1, 10) \o <<" ">> \o SubSeq(s, 12, 13) \o Tail00

\* C12 as stated: process_period maps a string of the form YYYY-MM-DDTHH
\* that denotes a valid date and hour to 'YYYY-MM-DD HH:00:00' and returns
\* every other string unchanged.
C12_OnlyTheStrictForm ==
    prog = "period" /\ pc = "done" =>
        period_out = IF WellFormedPeriod(period_in) THEN Expanded(period_in)
                     ELSE period_in

\* the ways a month, day or hour n may be written
Spell(n) == {Pad2(n)} \cup (IF n < 10 THEN {<<DigitChar(n)>>} ELSE {})
SpellDay(n) == Spell(n) \cup (IF n < 10 THEN {<<" ", DigitChar(n)>>} ELSE {})
StartsWith(s, pre) == Len(s) >= Len(pre) /\ SubSeq(s, 1, Len(pre)) = pre
\* the <<month, day, hour>> a string spells after its four-digit year, the
\* fields of one or two digits, joined by "-", "-" and "T" or "t"
MonthCuts(s) ==
    UNION {{<<m, SubSeq(s, 1, 4) \o <<"-">> \o ms \o <<"-">> >> :
              ms \in {x \in Spell(m) :
                        StartsWith(s, SubSeq(s, 1, 4) \o <<"-">> \o x
                                          \o <<"-">>)}} :
           m \in 1..12}
DayCuts(s, c) ==
    UNION {{<<c[1], d, c[2] \o ds>> :
              ds \in {x \in SpellDay(d) : StartsWith(s, c[2] \o x)}} :
           d \in 1..31}
Readings(s) ==
    IF Len(s) < 4 \/ ~IsDigits(SubSeq(s, 1, 4)) THEN {}
    ELSE UNION {UNION {{<<c[1], c[2], h>> :
                          h \in {x \in 0..23 :
                                   \E hs \in Spell(x), sep \in {"T", "t"} :
                                       s = c[3] \o <<sep>> \o hs}} :
                       c \in DayCuts(s, mc)} :
                mc \in MonthCuts(s)}
Pad4(n) == <<DigitChar(n \div 1000)>> \o <<DigitChar((n \div 100) % 10)>>
           \o Pad2(n % 100)
\* the timestamps of a year, month, day and hour: the year in four digits,
\* or as it is for a year below 1000 where strftime does not pad it
Stamps(y, mdh) ==
    {ys \o <<"-">> \o Pad2(mdh[1]) \o <<"-">> \o Pad2(mdh[2]) \o <<" ">>
        \o Pad2(mdh[3]) \o Tail00 :
     ys \in {Pad4(y)} \cup (IF y < 1000 THEN {NumStr(y)} ELSE {})}

\* C12 amended: process_period converts every string that spells a
\* four-digit year (1 or later), a month, a day and an hour of one or two
\* digits (the day also as a space and a digit), joined by "-", "-" and
\* "T" or "t", and denotes a valid date and hour, to 'YYYY-MM-DD HH:00:00'
\* with month, day and hour in two digits (a year below 1000 as strftime
\* prints it); so a string of the form YYYY-MM-DDTHH with a year of 1000
\* or later gives exactly 'YYYY-MM-DD HH:00:00'.  Every other string,
\* the empty string included, is returned unchanged.
C12_PeriodConversion ==
    prog = "period" /\ pc = "done" =>
        LET y == Num(SubSeq(period_in, 1, 4))
            rs == {r \in Readings(period_in) :
                     y >= 1 /\ r[2] <= DaysInMonth(y, r[1])}
        IN  /\ rs = {} => period_out = period_in
            /\ \A r \in rs : period_out \in Stamps(y, r)
            /\ WellFormedPeriod(period_in) /\ y >= 1000 =>
                   period_out = Expanded(period_in)

C12_Witness ==
    /\ prog = "period" /\ pc = "done"
    /\ period_in = <<"2", "0", "2", "3", "-", "2", "-", "5", "t", "7">>
    /\ period_out = <<"2", "0", "2", "3", "-", "0", "2", "-", "0", "5", " ",
                      "0", "7", ":", "0", "0", ":", "0", "0">>


NoDuplicates(s) == \A i, j \in DOMAIN s : s[i] = s[j] => i = j
Range(s) == {s[i] : i \in DOMAIN s}
\* S: the series the source holds in all categories of the tree
TotalSeries == CollectedLen([i \in DOMAIN series |-> [n |-> series[i]]])
NoRequestFailed == fails_left = MaxFailures

\* C13: on a finite category tree with N nodes and S series, when no
\* request fails, crawl_category started at the root stops only once the
\* whole crawl is done, enters each node exactly once, sends one
\* category/series and one category/children request per node, and returns
\* an accumulator of exactly S series.
C13_EachNodeOnce ==
    prog = "crawl" /\ NoRequestFailed =>
        /\ NoDuplicates(visits)
        /\ NoDuplicates(requested)
        /\ ~ENABLED CrawlNext /\ visits # <<>> => pc = "done"
        /\ pc \in {"main", "done"} =>
               /\ Range(visits) = Nodes
               /\ Range(requested) =
                      {"category/series", "category/children"} \X Nodes
               /\ CollectedLen(collected) = TotalSeries
               /\ Len(collected) = Len(tree) + 1

C13_Witness ==
    /\ prog = "crawl" /\ pc = "done" /\ NoRequestFailed
    /\ tree = <<0, 0>> /\ series = <<9950, 60, 60>>
    /\ visits = <<0, 1, 2>>
    /\ CollectedLen(collected) = 10070


\* the k-th answer taken made the accumulator reach or pass a multiple of
\* SAVE_EVERY
ReachedMultiple(k) ==
    CollectedLen(SubSeq(collected, 1, k)) \div SAVE_EVERY
        > CollectedLen(SubSeq(collected, 1, k - 1)) \div SAVE_EVERY

\* C14 as stated: whenever the accumulated series reach or pass a multiple
\* of SAVE_EVERY, a checkpoint of all series accumulated so far has been
\* written to the CSV by the time the next request is made, so no multiple
\* of SAVE_EVERY is passed without a save.
C14_SavedAtEveryMultiple ==
    prog = "crawl" /\ pc \notin {"main", "done"} =>
        \A k \in 1..Len(collected) :
            ReachedMultiple(k) => SubSeq(collected, 1, k) \in Range(csv)


\* the page main has handled is malformed or empty
EndOfDataPage ==
    /\ data_page # NoPage /\ pc # "page"
    /\ data_page.shape \in {"no_response", "no_data"}
       \/ data_page.records = <<>>

\* C15: a fetched page without 'response', without 'data' under
\* 'response', or with an empty 'data' list ends the EIA loop as end of
\* data: the run completes without an exception, no request follows the
\* one that fetched it, and the file still holds the header and the rows of
\* the pages before it.
C15_BadPageEndsLoop ==
    prog = "eia" /\ EndOfDataPage =>
        /\ pc = "done"
        /\ stop = IF data_page.shape = "ok" THEN "empty" ELSE "invalid"
        /\ ~ENABLED EIANext
        /\ last_req = Req("fetch_page", offset, pages)
        /\ rows_written = Min(offset, Len(src_data))
        /\ file = IF rows_written = 0 THEN <<>>
                  ELSE <<HeaderRow(headers)>>
                       \o DataRows(headers, SubSeq(src_data, 1, rows_written))

C15_Witness ==
    /\ prog = "eia" /\ pc = "done" /\ stop = "invalid"
    /\ data_page.shape = "no_data"
    /\ pages = 2 /\ rows_written = 1 /\ Len(file) = 2


\* start and end are both given and the start is the later one
StartAfterEnd(start, end) ==
    start.kind = "date" /\ end.kind = "date" /\ start.day > end.day
\* the run was configured wrongly: no API key, an unusable ticker, or a
\* start date later than the end date
ConfigurationError ==
    \/ prog \in {"eia", "crawl"} /\ API_KEY = ""
    \/ prog = "eia" /\ StartAfterEnd(START_DATE, END_DATE)
    \/ prog = "yf" /\ \/ yf_in.ticker.type # "str"
                      \/ yf_in.ticker.text = ""
                      \/ StartAfterEnd(yf_in.start, yf_in.end)

\* C16 as stated: in every script a configuration error (missing API key,
\* invalid identifier, start date later than end date) stops the run
\* before the first network request is issued.
C16_ConfigErrorBeforeAnyRequest ==
    ConfigurationError => last_req = NoReq /\ last_ev = None


\* C17: get_stock_data called with an empty or non-string ticker, or with
\* an end date earlier than the start date, ends with the ValueError of
\* validate_inputs: the retry loop is never entered, so there is no
\* download attempt, no sleep and no file.
C17_InvalidInputsRaise ==
    /\ prog = "yf" /\ pc # "get_stock_data"
    /\ \/ yf_in.ticker.type # "str"
       \/ yf_in.ticker.text = ""
       \/ StartAfterEnd(yf_in.start, yf_in.end)
    => /\ pc = "raised" /\ yf_out.result = "ValueError"
       /\ ~yf_out.saved
       /\ call = NoCall /\ attempt = 0
       /\ last_req = NoReq /\ last_ev = None
       /\ ~ENABLED YFNext

C17_Witness ==
    /\ prog = "yf" /\ pc = "raised"
    /\ yf_in.ticker = [type |-> "str", text |-> "SPY"]
    /\ yf_in.start = Date(5) /\ yf_in.end = Date(-5)
    /\ yf_out.result = "ValueError"


\* C18 as stated: whenever validate_inputs returns with a start and an end
\* date (period is None), the start it returns is not later than the end it
\* returns, for daily and for intraday intervals.
C18_ReturnedStartNotAfterEnd ==
    /\ prog = "yf" /\ pc \in {"download", "done"}
    /\ yf_args.period = None /\ yf_args.start.kind = "date"
    => yf_args.start.day <= yf_args.end.day


\* C19 as stated: whatever field names the first record of a non-empty
\* first page has, with or without "period", the header and the rows of
\* the page are written without raising, and a timestamp column that was
\* added stands right after "period".
C19_AnyFirstRecordAccepted ==
    /\ prog = "eia" /\ pages = 1 /\ PageHandled
    /\ data_page.shape = "ok" /\ data_page.records # <<>>
    => /\ stop # "ValueError" /\ pc # "raised"
       /\ file = <<HeaderRow(headers)>> \o DataRows(headers, data_page.records)
       /\ ~HasKey(src_data[1], "timestamp") =>
              /\ Contains(headers, "period")
              /\ headers[Index(headers, "period") + 1] = "timestamp"


IsPrefix(s, t) == Len(s) <= Len(t) /\ SubSeq(t, 1, Len(s)) = s
\* the categories in depth-first pre-order, starting with those of todo
RECURSIVE PreOrder(_)
PreOrder(todo) ==
    IF todo = <<>> THEN <<>>
    ELSE <<Head(todo)>> \o PreOrder(Children(Head(todo)))
         \o PreOrder(Tail(todo))

\* C20: the accumulator of the crawl only grows at its end: every
\* checkpoint written to the CSV is a prefix of every later one and of the
\* accumulator, the final file is the whole accumulator, and the
\* accumulator holds all series of each category answered, the categories
\* in depth-first pre-order (all of them when no request failed).
C20_AppendOnlyPreOrder ==
    prog = "crawl" =>
        LET order == PreOrder(<<0>>)
            \* where in that order each answer taken stands
            place == [i \in DOMAIN collected |->
                        Index(order, collected[i].cat)]
        IN  /\ \A i, j \in DOMAIN csv : i <= j => IsPrefix(csv[i], csv[j])
            /\ \A i \in DOMAIN csv : IsPrefix(csv[i], collected)
            /\ pc = "done" => csv # <<>> /\ csv[Len(csv)] = collected
            /\ \A i \in DOMAIN collected :
                   collected[i].n = series[collected[i].cat + 1]
            /\ \A i, j \in DOMAIN place : i < j => place[i] < place[j]
            /\ pc = "done" /\ NoRequestFailed =>
                   place = [i \in DOMAIN order |-> i]

C20_Witness ==
    /\ prog = "crawl" /\ pc = "done"
    /\ tree = <<0, 0>> /\ series = <<9950, 60, 60>>
    /\ Len(csv) = 3 /\ Len(csv[1]) = 2 /\ Len(csv[2]) = 3
    /\ csv[3] = collected /\ Len(collected) = 3


\* the metadata request gave no description: fred_request gave up and
\* returned None, or its JSON is null or has no "seriess" key
MetadataFailed ==
    /\ endpoint = "series" /\ pc \in {"returned", "exit_1"}
    /\ MetaMissing(data)
ObservationsRequested ==
    \E i \in DOMAIN requested : requested[i][1] = "series/observations"

\* C21: in the specific-series script every observations request comes
\* after a metadata request that succeeded and gave a description; the
\* data CSV and the metadata JSON exist only when both requests succeeded
\* and the observations are not empty; and when the metadata request
\* failed (retries exhausted or no "seriess" key) the run ends with no
\* observations request and no file.
C21_MetadataBeforeObservations ==
    prog = "series" =>
        /\ \A i \in DOMAIN requested :
               requested[i][1] = "series/observations" =>
                   /\ \E j \in 1..(i - 1) : requested[j] = <<"series", "ok">>
                   /\ ~NoMeta(meta)
                   /\ <<"series", 0>> \notin skipped
        /\ saved # <<>> =>
               /\ saved = <<"csv", "json">> /\ pc = "done"
               /\ <<"series", "ok">> \in Range(requested)
               /\ requested[Len(requested)] = <<"series/observations", "ok">>
               /\ ~NoMeta(meta)
               /\ data.shape = "observations" /\ data.n > 0 /\ df = data.n
        /\ MetadataFailed =>
               /\ ~ObservationsRequested /\ saved = <<>>
               /\ pc = "exit_1" => ~ENABLED SeriesNext

C21_Witness ==
    /\ prog = "series" /\ pc = "done"
    /\ requested = <<<<"series", "failed">>, <<"series", "ok">>,
                     <<"series/observations", "failed">>,
                     <<"series/observations", "ok">> >>
    /\ saved = <<"csv", "json">> /\ df = 2

====
